---- MODULE Spec2Model ----
(***************************************************************************)
(* Voice relay: src/server.ts (WebSocket bridge between browser sockets    *)
(* and upstream live sessions, process-wide trip store) and                *)
(* src/public/app.js (browser transport, microphone, playback queue).      *)
(*                                                                         *)
(* Spec        the server: connection handlers, upstream callbacks, store. *)
(* ClientSpec  one browser page: sockets, start/stop, playback queue.      *)
(***************************************************************************)
EXTENDS Integers, Sequences, FiniteSets, TLC

\* ------------------------------------------------------------------ bounds
MaxConns == 2        \* sockets the server accepts
MaxMsgs == 2         \* messages the server receives, from browsers and upstream together

MaxSockets == 2      \* WebSockets the page creates
MaxEnvs == 2         \* envelopes delivered to the page
MaxFrames == 1       \* capture callbacks of the page's script processors

Conns == 1..MaxConns

\* ------------------------------------------------------ program constants
FirstConnect == 1    \* the session returned by the connect at line 104
SecondConnect == 2   \* the session returned by the connect at line 120
InputMime == "audio/pcm;rate=16000"

\* required: [...] of the saveTrip declaration, and its optional property
RequiredFields == {"cliente", "autista", "destinazione", "tipo_viaggio", "data"}
TripFields == RequiredFields \cup {"partenza"}

\* ----------------------------------------------------------- input domains
\* functionCalls entries: name, id, args; call.args is the set of properties
\* the invocation carries
Call(n, i, a) == [name |-> n, id |-> i, args |-> a]

\* parts of msg.serverContent.modelTurn.parts
Part(inl, mime, d, txt) == [inlineData |-> inl, mimeType |-> mime, data |-> d, text |-> txt]
PcmPart(d) == Part(TRUE, "audio/pcm;rate=24000", d, "")
TextPart == Part(FALSE, "", 0, "ciao")
ImagePart == Part(TRUE, "image/png", 7, "")
PcmTextPart == Part(TRUE, "audio/pcm;rate=24000", 2, "ciao")

\* a LiveServerMessage: parts (hasParts FALSE when serverContent is absent),
\* toolCall present or not, functionCalls defined or not
Msg(hp, ps, tc, hc, cs) ==
    [hasParts |-> hp, parts |-> ps, toolCall |-> tc, hasCalls |-> hc, functionCalls |-> cs]

UpstreamMsgs ==
    { Msg(TRUE, <<TextPart, ImagePart, PcmTextPart, PcmPart(1)>>, FALSE, FALSE, <<>>),
      Msg(FALSE, <<>>, TRUE, FALSE, <<>>),
      Msg(FALSE, <<>>, TRUE, TRUE, <<Call("otherTool", 3, RequiredFields)>>),
      Msg(TRUE, <<TextPart>>, TRUE, TRUE,
          <<Call("saveTrip", 2, RequiredFields \ {"data"}), Call("otherTool", 3, TripFields),
            Call("saveTrip", 1, TripFields)>>) }

\* frames a browser sends: raw text that JSON.parse accepts or not, the
\* parsed type, and parsed.data; data 9 is not base64 and session.send rejects it
Frame(ok, t, d) == [json |-> ok, type |-> t, data |-> d]
ClientFrames ==
    { Frame(TRUE, "audio", 1), Frame(TRUE, "audio", 9),
      Frame(TRUE, "start", 0), Frame(FALSE, "", 0) }

\* JSON envelopes the server sends to a browser
Env(t, m, d, ts) == [type |-> t, message |-> m, data |-> d, trips |-> ts]
StatusEnv == Env("status", "Connected to Gemini", 0, <<>>)
AudioEnv(d) == Env("audio", "", d, <<>>)
LogEnv(txt) == Env("log", "Gemini: " \o txt, 0, <<>>)
TripsEnv(ts) == Env("trips_update", "", 0, ts)

\* what session.send is called with: a realtime chunk the session takes, a
\* realtime chunk whose send rejects, a tool response
RealtimeInput(d) == [kind |-> "realtimeInput", mimeType |-> InputMime, data |-> d, responses |-> <<>>]
Rejected(d) == [kind |-> "rejected", mimeType |-> InputMime, data |-> d, responses |-> <<>>]
ToolResponse(rs) == [kind |-> "toolResponse", mimeType |-> "", data |-> 0, responses |-> rs]
FunctionResponse(i) == [name |-> "saveTrip", id |-> i, result |-> "Trip saved successfully."]

VARIABLES
    alive,           \* the server process is running
    wsState,         \* readyState of each server-side socket
    pc,              \* where each connection handler stands
    session,         \* the handler's `session` variable: 0 undefined, else which connect
    up,              \* upstream sessions: up[c][k] for the k-th connect of connection c
    collectedTrips,  \* the trip store
    sent,            \* envelopes each socket accepted for delivery to its browser
    upRecv,          \* what session.send was called with on each upstream session
    invoked,         \* history: connection, id and args of each saveTrip invocation delivered, in order
    nMsgs            \* messages the server has received, from browsers and upstream

VARIABLES
    ws,              \* the page's `ws` variable: 0 undefined, else the socket it names
    sock,            \* readyState of each WebSocket the page created
    isRecording,
    micPending,      \* startMicrophone calls waiting for getUserMedia
    streamRef,       \* the page's `stream` variable: what it names
    liveStreams,     \* microphone streams whose tracks are not stopped
    audioContext,    \* the page's `audioContext` is non-null
    processors,      \* script processors attached to the open context
    audioQueue,
    isPlaying,
    playing,         \* chunks started whose onended has not fired, context open
    stale,           \* chunks started whose context was closed before onended
    received,        \* history: chunks received in audio envelopes, in order
    started,         \* history: chunks handed to source.start(), in order
    logs,            \* the transcript: its first child and its length
    tripsBody,       \* the rendered table rows
    nCaptured,       \* history: capture callbacks that fired
    nFramesSent,     \* history: frames handed to ws.send by capture callbacks
    nEnv             \* envelopes delivered to the page

clientVars == <<ws, sock, isRecording, micPending, streamRef, liveStreams, audioContext,
                processors, audioQueue, isPlaying, playing, stale, received, started,
                logs, tripsBody, nCaptured, nFramesSent, nEnv>>

serverVars == <<alive, wsState, pc, session, up, collectedTrips, sent, upRecv,
                invoked, nMsgs>>

ClientInit ==
    /\ ws = 0
    /\ sock = [s \in 1..MaxSockets |-> "NONE"]
    /\ isRecording = FALSE
    /\ micPending = 0
    /\ streamRef = "undefined"
    /\ liveStreams = 0
    /\ audioContext = FALSE
    /\ processors = 0
    /\ audioQueue = <<>>
    /\ isPlaying = FALSE
    /\ playing = {}
    /\ stale = {}
    /\ received = <<>>
    /\ started = <<>>
    /\ logs = [first |-> "", count |-> 0]
    /\ tripsBody = <<>>
    /\ nCaptured = 0
    /\ nFramesSent = 0
    /\ nEnv = 0

ServerInit ==
    /\ alive = TRUE
    /\ wsState = [c \in Conns |-> "NONE"]
    /\ pc = [c \in Conns |-> "none"]
    /\ session = [c \in Conns |-> 0]
    /\ up = [c \in Conns |-> [k \in {FirstConnect, SecondConnect} |-> "none"]]
    /\ collectedTrips = <<>>
    /\ sent = [c \in Conns |-> <<>>]
    /\ upRecv = [c \in Conns |-> [k \in {FirstConnect, SecondConnect} |-> <<>>]]
    /\ invoked = <<>>
    /\ nMsgs = 0

\* ws.send(data): the socket takes the frame only while OPEN
WsSend(c, envs) == IF wsState[c] = "OPEN" THEN envs ELSE <<>>

\* broadcastTrips without the readyState test
broadcastTripsAll(trips) == [c \in Conns |-> <<TripsEnv(trips)>>]

\* wss.clients.forEach(client => if OPEN, send trips_update with the store)
broadcastTrips(trips) == [c \in Conns |-> WsSend(c, <<TripsEnv(trips)>>)]

\* wss.on('connection'): runs up to the first await; connections are numbered
\* in the order the server accepts them
Accept(c) ==
    /\ alive
    /\ pc[c] = "none"
    /\ \A k \in 1..(c - 1) : pc[k] # "none"
    /\ pc' = [pc EXCEPT ![c] = "connect1"]
    /\ wsState' = [wsState EXCEPT ![c] = "OPEN"]
    /\ UNCHANGED <<alive, session, up, collectedTrips, sent, upRecv, invoked, nMsgs>>
    /\ UNCHANGED clientVars

\* the first connect resolves; the handler goes on to the second connect
Connect1OK(c) ==
    /\ alive
    /\ pc[c] = "connect1"
    /\ up' = [up EXCEPT ![c][FirstConnect] = "open"]
    /\ session' = [session EXCEPT ![c] = FirstConnect]
    /\ pc' = [pc EXCEPT ![c] = "connect2"]
    /\ UNCHANGED <<alive, wsState, collectedTrips, sent, upRecv, invoked, nMsgs>>
    /\ UNCHANGED clientVars

\* the first connect rejects: catch, ws.close(), return
Connect1Fail(c) ==
    /\ alive
    /\ pc[c] = "connect1"
    /\ wsState' = [wsState EXCEPT ![c] = "CLOSED"]
    /\ pc' = [pc EXCEPT ![c] = "failed"]
    /\ UNCHANGED <<alive, session, up, collectedTrips, sent, upRecv, invoked, nMsgs>>
    /\ UNCHANGED clientVars

\* session.close() and the end of the process both end an open session
CloseSession(st) == IF st = "open" THEN "closed" ELSE st

\* the second connect resolves: callbacks.onopen sends the status line, the
\* session is assigned, both socket handlers are registered and the initial
\* store is sent
Connect2OK(c) ==
    /\ alive
    /\ pc[c] = "connect2"
    /\ up' = [up EXCEPT ![c][SecondConnect] = "open"]
    /\ session' = [session EXCEPT ![c] = SecondConnect]
    /\ pc' = [pc EXCEPT ![c] = "ready"]
    /\ sent' = [sent EXCEPT ![c] =
                  @ \o WsSend(c, <<StatusEnv>>) \o WsSend(c, <<TripsEnv(collectedTrips)>>)]
    /\ UNCHANGED <<alive, wsState, collectedTrips, upRecv, invoked, nMsgs>>
    /\ UNCHANGED clientVars

\* the second connect rejects outside any try: the async handler's promise
\* rejects unhandled.  Depending on the runtime's unhandled-rejection mode the
\* process either goes on (the handler simply never resumes) or exits.
Connect2Fail(c) ==
    /\ alive
    /\ pc[c] = "connect2"
    /\ pc' = [pc EXCEPT ![c] = "rejected"]
    /\ \/ UNCHANGED <<alive, wsState, up>>
       \/ /\ alive' = FALSE
          /\ wsState' = [k \in Conns |-> IF wsState[k] = "OPEN" THEN "CLOSED" ELSE wsState[k]]
          /\ up' = [k \in Conns |-> [n \in {FirstConnect, SecondConnect} |-> CloseSession(up[k][n])]]
    /\ UNCHANGED <<session, collectedTrips, sent, upRecv, invoked, nMsgs>>
    /\ UNCHANGED clientVars

\* listeners are attached by the handler only after both awaits
HandlersRegistered(c) == pc[c] = "ready"

\* session.send of a realtime chunk rejects for payload 9
SendRejects(d) == d = 9

\* ws.on('message') with a session.send that takes every payload
OnClientMessageNoReject(f) ==
    IF ~f.json THEN <<>>
    ELSE IF f.type = "audio" THEN <<RealtimeInput(f.data)>>
    ELSE <<>>

\* ws.on('message'): the session.send call the frame leads to, if any
OnClientMessage(f) ==
    IF ~f.json THEN <<>>                                   \* JSON.parse throws, caught
    ELSE IF f.type = "audio"
         THEN IF SendRejects(f.data) THEN <<Rejected(f.data)>>   \* send throws, caught
              ELSE <<RealtimeInput(f.data)>>
         ELSE <<>>                                         \* 'start' and anything else

\* a browser sends a frame on its open socket; the 'message' event reaches
\* the listener if one is attached, and nobody otherwise
ClientMessage(c, f) ==
    /\ alive
    /\ wsState[c] = "OPEN"
    /\ nMsgs < MaxMsgs
    /\ nMsgs' = nMsgs + 1
    /\ upRecv' = IF HandlersRegistered(c)
                 THEN [upRecv EXCEPT ![c][session[c]] = @ \o OnClientMessage(f)]
                 ELSE upRecv
    /\ UNCHANGED <<alive, wsState, pc, session, up, collectedTrips, sent, invoked>>
    /\ UNCHANGED clientVars

\* the browser's socket closes; ws.on('close') runs if it is attached
ClientClose(c) ==
    /\ alive
    /\ wsState[c] = "OPEN"
    /\ wsState' = [wsState EXCEPT ![c] = "CLOSED"]
    /\ up' = IF HandlersRegistered(c) /\ session[c] # 0
             THEN [up EXCEPT ![c][session[c]] = CloseSession(@)]
             ELSE up
    /\ UNCHANGED <<alive, pc, session, collectedTrips, sent, upRecv, invoked, nMsgs>>
    /\ UNCHANGED clientVars

\* part.inlineData.mimeType?.startsWith('audio/pcm')
StartsWithAudioPcm(mime) == mime \in {"audio/pcm", "audio/pcm;rate=24000"}

\* the loop over parts, each envelope put before the earlier ones
RECURSIVE PartEnvsReversed(_)
PartEnvsReversed(parts) ==
    IF parts = <<>> THEN <<>>
    ELSE LET part == Head(parts)
             env == IF part.inlineData /\ StartsWithAudioPcm(part.mimeType)
                    THEN <<AudioEnv(part.data)>>
                    ELSE IF part.text # "" THEN <<LogEnv(part.text)>>
                    ELSE <<>>
         IN PartEnvsReversed(Tail(parts)) \o env

\* for (const part of parts): an audio envelope, else a log envelope, else nothing
RECURSIVE PartEnvs(_)
PartEnvs(parts) ==
    IF parts = <<>> THEN <<>>
    ELSE LET part == Head(parts)
             env == IF part.inlineData /\ StartsWithAudioPcm(part.mimeType)
                    THEN <<AudioEnv(part.data)>>
                    ELSE IF part.text # "" THEN <<LogEnv(part.text)>>
                    ELSE <<>>
         IN env \o PartEnvs(Tail(parts))

\* unshift instead of push
PushFront(trips, args) == <<args>> \o trips

\* collectedTrips.push(args)
Push(trips, args) == Append(trips, args)

\* responses overwritten instead of pushed to
PushResponseLast(responses, call) == <<FunctionResponse(call.id)>>

\* responses.push({name, id: call.id, response})
PushResponse(responses, call) == Append(responses, FunctionResponse(call.id))

\* the loop over functionCalls without the test of call.name
RECURSIVE SaveCallsAnyName(_, _)
SaveCallsAnyName(calls, st) ==
    IF calls = <<>> THEN st
    ELSE LET call == Head(calls)
             trips == Push(st.trips, call.args)
             bc == broadcastTrips(trips)
         IN SaveCallsAnyName(Tail(calls),
                             [trips |-> trips,
                              out |-> [k \in Conns |-> st.out[k] \o bc[k]],
                              responses |-> PushResponse(st.responses, call)])

\* for (const call of functionCalls): st carries the store, the envelopes
\* each socket has taken so far during the loop, and the responses array
RECURSIVE SaveCalls(_, _)
SaveCalls(calls, st) ==
    IF calls = <<>> THEN st
    ELSE LET call == Head(calls)
             trips == Push(st.trips, call.args)
             bc == broadcastTrips(trips)
         IN IF call.name = "saveTrip"
            THEN SaveCalls(Tail(calls),
                           [trips |-> trips,
                            out |-> [k \in Conns |-> st.out[k] \o bc[k]],
                            responses |-> PushResponse(st.responses, call)])
            ELSE SaveCalls(Tail(calls), st)

\* history: the saveTrip invocations a message carries, in order
RECURSIVE SaveTripCalls(_)
SaveTripCalls(calls) ==
    IF calls = <<>> THEN <<>>
    ELSE (IF Head(calls).name = "saveTrip" THEN <<Head(calls)>> ELSE <<>>)
         \o SaveTripCalls(Tail(calls))

\* callbacks.onmessage of the session opened by the second connect
UpstreamMessage(c, msg) ==
    /\ alive
    /\ up[c][SecondConnect] = "open"
    /\ nMsgs < MaxMsgs
    /\ nMsgs' = nMsgs + 1
    /\ LET partOut == IF msg.hasParts THEN WsSend(c, PartEnvs(msg.parts)) ELSE <<>>
           handled == msg.toolCall /\ msg.hasCalls
           res == IF handled
                  THEN SaveCalls(msg.functionCalls,
                                 [trips |-> collectedTrips,
                                  out |-> [k \in Conns |-> <<>>],
                                  responses |-> <<>>])
                  ELSE [trips |-> collectedTrips, out |-> [k \in Conns |-> <<>>],
                        responses |-> <<>>]
       IN /\ collectedTrips' = res.trips
          /\ sent' = [k \in Conns |->
                        sent[k] \o (IF k = c THEN partOut ELSE <<>>) \o res.out[k]]
          /\ upRecv' = IF handled
                       THEN [upRecv EXCEPT ![c][session[c]] = Append(@, ToolResponse(res.responses))]
                       ELSE upRecv
          /\ invoked' = IF handled
                        THEN invoked \o [i \in 1..Len(SaveTripCalls(msg.functionCalls)) |->
                                           [conn |-> c,
                                            id |-> SaveTripCalls(msg.functionCalls)[i].id,
                                            args |-> SaveTripCalls(msg.functionCalls)[i].args]]
                        ELSE invoked
    /\ UNCHANGED <<alive, wsState, pc, session, up>>
    /\ UNCHANGED clientVars


\* ------------------------------------------------------------ browser page
\* base64 payloads: 1 and 2 decode to PCM samples, 0 decodes to no samples,
\* 9 is not base64
AtobThrows(d) == d = 9
EmptyPcm(d) == d = 0

\* envelopes the page may receive from its server
PageEnvs ==
    { StatusEnv, LogEnv("ciao"), TripsEnv(<<RequiredFields \ {"data"}, TripFields>>),
      AudioEnv(1), AudioEnv(0), AudioEnv(9) }

Sockets == 1..MaxSockets

\* the five cells updateTrips writes for one trip: the value, or '-' if falsy
Columns == <<"cliente", "autista", "destinazione", "tipo_viaggio", "data">>
Row(trip) == [i \in 1..5 |-> IF Columns[i] \in trip THEN Columns[i] ELSE "-"]

\* updateTrips(trips): clears the table, then one row per trip
updateTrips(trips) == [i \in 1..Len(trips) |-> Row(trips[i])]

\* log(msg): insertBefore(entry, logsDiv.firstChild).  logsDiv is only ever
\* prepended to and never read, so the model keeps its first child and the
\* number of its children
log(entries, msg) == [first |-> msg, count |-> entries.count + 1]

\* the trips_update branch without tripsBody.innerHTML = ''
onmessageTripsAppend(table, env) ==
    IF env.type = "trips_update" THEN table \o updateTrips(env.trips) ELSE table

\* ws.onmessage, what it does to the table: else if (data.type ===
\* 'trips_update') updateTrips(data.trips)
onmessageTrips(table, env) ==
    IF env.type = "trips_update" THEN updateTrips(env.trips) ELSE table

\* the page's playback state, as playNextAudio reads and writes it
PlayState == [isPlaying |-> isPlaying, audioQueue |-> audioQueue,
              audioContext |-> audioContext, playing |-> playing, started |-> started]

\* audioQueue[0] instead of audioQueue.shift()
ShiftKeep(q) == [chunk |-> Head(q), rest |-> q]

\* audioQueue.shift()
Shift(q) == [chunk |-> Head(q), rest |-> Tail(q)]

\* playNextAudio without the isPlaying test
playNextAudioNoGuard(st) ==
    IF st.audioQueue = <<>> THEN st
    ELSE LET sh == [chunk |-> Head(st.audioQueue), rest |-> Tail(st.audioQueue)]
             taken == [st EXCEPT !.isPlaying = TRUE, !.audioQueue = sh.rest]
         IN IF AtobThrows(sh.chunk.data) THEN taken
            ELSE IF EmptyPcm(sh.chunk.data)
                 THEN [taken EXCEPT !.audioContext = TRUE]
            ELSE [taken EXCEPT !.audioContext = TRUE,
                               !.playing = @ \cup {sh.chunk.id},
                               !.started = Append(@, sh.chunk)]

\* playNextAudio(): no await inside, so it runs to its end or to a throw
playNextAudio(st) ==
    IF st.isPlaying \/ st.audioQueue = <<>> THEN st
    ELSE LET sh == Shift(st.audioQueue)
             taken == [st EXCEPT !.isPlaying = TRUE, !.audioQueue = sh.rest]
         IN IF AtobThrows(sh.chunk.data) THEN taken              \* atob throws
            ELSE IF EmptyPcm(sh.chunk.data)
                 THEN [taken EXCEPT !.audioContext = TRUE]       \* createBuffer throws
            ELSE [taken EXCEPT !.audioContext = TRUE,
                               !.playing = @ \cup {sh.chunk.id},
                               !.started = Append(@, sh.chunk)]  \* source.start()

\* ws.close() of a browser socket
BrowserClose(st) == IF st \in {"CONNECTING", "OPEN"} THEN "CLOSING" ELSE st

\* stop(), given the sockets as they are when it is called
Stop(socks) ==
    /\ isRecording' = FALSE
    /\ sock' = IF ws # 0 THEN [socks EXCEPT ![ws] = BrowserClose(@)] ELSE socks
    /\ streamRef' = IF streamRef = "live" THEN "stopped" ELSE streamRef
    /\ liveStreams' = IF streamRef = "live" THEN liveStreams - 1 ELSE liveStreams
    /\ audioContext' = FALSE
    /\ processors' = 0
    /\ playing' = {}
    /\ stale' = stale \cup playing

NextSocket == Cardinality({s \in Sockets : sock[s] # "NONE"}) + 1

\* click on the start button: start()
ClickStart ==
    /\ IF isRecording
       THEN /\ Stop(sock)
            /\ UNCHANGED <<ws, logs>>
       ELSE /\ NextSocket \in Sockets
            /\ logs' = log(logs, "Connecting...")
            /\ ws' = NextSocket
            /\ sock' = [sock EXCEPT ![NextSocket] = "CONNECTING"]
            /\ UNCHANGED <<isRecording, streamRef, liveStreams, audioContext,
                           processors, playing, stale>>
    /\ UNCHANGED <<micPending, audioQueue, isPlaying, received, started, tripsBody,
                   nCaptured, nFramesSent, nEnv>>
    /\ UNCHANGED serverVars

\* ws.onopen of socket s, up to the await inside startMicrophone
SocketOpen(s) ==
    /\ sock[s] = "CONNECTING"
    /\ sock' = [sock EXCEPT ![s] = "OPEN"]
    /\ logs' = log(logs, "Connected to Server")
    /\ isRecording' = TRUE
    /\ micPending' = micPending + 1
    /\ UNCHANGED <<ws, streamRef, liveStreams, audioContext, processors, audioQueue,
                   isPlaying, playing, stale, received, started, tripsBody, nCaptured, nFramesSent, nEnv>>
    /\ UNCHANGED serverVars

\* getUserMedia resolves: the rest of startMicrophone
GetUserMediaOK ==
    /\ micPending > 0
    /\ micPending' = micPending - 1
    /\ streamRef' = "live"
    /\ liveStreams' = liveStreams + 1
    /\ audioContext' = TRUE
    /\ processors' = processors + 1
    /\ UNCHANGED <<ws, sock, isRecording, audioQueue, isPlaying, playing, stale,
                   received, started, logs, tripsBody, nCaptured, nFramesSent, nEnv>>
    /\ UNCHANGED serverVars

\* getUserMedia rejects: startMicrophone and onopen end there
GetUserMediaFail ==
    /\ micPending > 0
    /\ micPending' = micPending - 1
    /\ UNCHANGED <<ws, sock, isRecording, streamRef, liveStreams, audioContext,
                   processors, audioQueue, isPlaying, playing, stale, received,
                   started, logs, tripsBody, nCaptured, nFramesSent, nEnv>>
    /\ UNCHANGED serverVars

\* ws.onmessage of socket s
SocketMessage(s, env) ==
    /\ sock[s] = "OPEN"
    /\ nEnv < MaxEnvs
    /\ nEnv' = nEnv + 1
    /\ logs' = IF env.type = "log" THEN log(logs, env.message) ELSE logs
    /\ tripsBody' = onmessageTrips(tripsBody, env)
    /\ IF env.type = "audio"
       THEN LET chunk == [id |-> Len(received) + 1, data |-> env.data]
                st == playNextAudio([PlayState EXCEPT !.audioQueue = Append(@, chunk)])
            IN /\ received' = Append(received, chunk)
               /\ audioQueue' = st.audioQueue
               /\ isPlaying' = st.isPlaying
               /\ audioContext' = st.audioContext
               /\ playing' = st.playing
               /\ started' = st.started
       ELSE UNCHANGED <<received, audioQueue, isPlaying, audioContext, playing, started>>
    /\ UNCHANGED <<ws, sock, isRecording, micPending, streamRef, liveStreams,
                   processors, stale, nCaptured, nFramesSent>>
    /\ UNCHANGED serverVars

\* ws.onclose of socket s: the connection failed, the server closed it, or
\* the closing handshake ended
SocketClose(s) ==
    /\ sock[s] \in {"CONNECTING", "OPEN", "CLOSING"}
    /\ logs' = log(logs, "Disconnected")
    /\ Stop([sock EXCEPT ![s] = "CLOSED"])
    /\ UNCHANGED <<ws, micPending, audioQueue, isPlaying, received, started,
                   tripsBody, nCaptured, nFramesSent, nEnv>>
    /\ UNCHANGED serverVars

\* source.onended of a started chunk; for a chunk whose context stop() has
\* closed the event may come or never come
OnEnded(id) ==
    /\ id \in playing \cup stale
    /\ LET st == playNextAudio([PlayState EXCEPT !.isPlaying = FALSE,
                                                 !.playing = @ \ {id}])
       IN /\ audioQueue' = st.audioQueue
          /\ isPlaying' = st.isPlaying
          /\ audioContext' = st.audioContext
          /\ playing' = st.playing
          /\ started' = st.started
    /\ stale' = stale \ {id}
    /\ UNCHANGED <<ws, sock, isRecording, micPending, streamRef, liveStreams,
                   processors, received, logs, tripsBody, nCaptured, nFramesSent, nEnv>>
    /\ UNCHANGED serverVars

\* the capture callback's test without the readyState part
CaptureReturnsNoReadyState == ~isRecording

\* if (!isRecording || ws.readyState !== WebSocket.OPEN) return
CaptureReturns == ~isRecording \/ sock[ws] # "OPEN"

\* processor.onaudioprocess: one capture buffer
AudioProcess ==
    /\ processors > 0
    /\ nCaptured < MaxFrames
    /\ nCaptured' = nCaptured + 1
    /\ nFramesSent' = IF CaptureReturns THEN nFramesSent         \* return
                      ELSE nFramesSent + 1                       \* ws.send
    /\ UNCHANGED <<ws, sock, isRecording, micPending, streamRef, liveStreams,
                   audioContext, processors, audioQueue, isPlaying, playing, stale,
                   received, started, logs, tripsBody, nEnv>>
    /\ UNCHANGED serverVars

ClientNext ==
    \/ ClickStart
    \/ \E s \in Sockets : SocketOpen(s)
    \/ GetUserMediaOK
    \/ GetUserMediaFail
    \/ \E s \in Sockets, env \in PageEnvs : SocketMessage(s, env)
    \/ \E s \in Sockets : SocketClose(s)
    \/ \E id \in 1..MaxEnvs : OnEnded(id)
    \/ AudioProcess

Next ==
    \/ \E c \in Conns : Accept(c)
    \/ \E c \in Conns : Connect1OK(c)
    \/ \E c \in Conns : Connect1Fail(c)
    \/ \E c \in Conns : Connect2OK(c)
    \/ \E c \in Conns : Connect2Fail(c)
    \/ \E c \in Conns, f \in ClientFrames : ClientMessage(c, f)
    \/ \E c \in Conns : ClientClose(c)
    \/ \E c \in Conns, msg \in UpstreamMsgs : UpstreamMessage(c, msg)

vars == <<serverVars, clientVars>>

Init == ServerInit /\ ClientInit

Spec == Init /\ [][Next]_vars

ClientSpec == Init /\ [][ClientNext]_vars

\* ------------------------------------------------------------- properties
IsPrefix(a, b) == Len(a) <= Len(b) /\ \A i \in 1..Len(a) : a[i] = b[i]

\* what a step appended to a sequence
Added(old, new) == SubSeq(new, Len(old) + 1, Len(new))

Sessions == {FirstConnect, SecondConnect}

\* the handler of connection c is not waiting for a connect
Quiescent(c) == pc[c] \in {"ready", "failed", "rejected"}

\* C1: once a client socket is closed and its handler has nothing pending, no
\* upstream session opened for that connection is still open
NoOrphanedSession ==
    \A c \in Conns :
        (wsState[c] = "CLOSED" /\ Quiescent(c)) => \A k \in Sessions : up[c][k] # "open"

\* C2: a connection opens at most one upstream session over its lifetime,
\* and exactly one once its setup has succeeded
OneSessionPerConnection ==
    \A c \in Conns :
        LET opened == {k \in Sessions : up[c][k] # "none"}
        IN /\ Cardinality(opened) <= 1
           /\ pc[c] = "ready" => Cardinality(opened) = 1

\* C3: the store is the sequence of the args of the saveTrip invocations
\* delivered so far, in delivery order, whatever connection they came on,
\* and a step only ever adds records at its end
TripStoreFifo ==
    /\ [](collectedTrips = [i \in 1..Len(invoked) |-> invoked[i].args])
    /\ [][IsPrefix(collectedTrips, collectedTrips')]_vars

\* invocations of two connections are in the store, three records in all
TripStoreFifoWitness ==
    /\ Len(collectedTrips) >= 3
    /\ \E i, j \in 1..Len(invoked) : invoked[i].conn # invoked[j].conn
    /\ collectedTrips[1] # collectedTrips[Len(collectedTrips)]

\* C4: every record in the store carries all required fields
OnlyCompleteTripsStored ==
    \A i \in 1..Len(collectedTrips) : RequiredFields \subseteq collectedTrips[i]

\* C5: a step that appends k records hands every socket that is open at
\* that moment the same k trips_update envelopes, the i-th carrying the whole
\* store after the i-th append, and hands nothing to a socket that is not open
BroadcastReachesOpenSockets ==
    [][collectedTrips' # collectedTrips =>
        LET k == Len(collectedTrips') - Len(collectedTrips)
            expected == [i \in 1..k |->
                            TripsEnv(SubSeq(collectedTrips', 1, Len(collectedTrips) + i))]
        IN \A j \in Conns :
              IF wsState[j] = "OPEN"
              THEN SelectSeq(Added(sent[j], sent'[j]),
                             LAMBDA e : e.type = "trips_update") = expected
              ELSE sent'[j] = sent[j]]_vars

\* a socket whose handler is still connecting, and which never sent anything,
\* holds the store another connection's invocation produced, while a closed
\* socket got nothing
BroadcastWitness ==
    \E a, b \in Conns :
        /\ a # b
        /\ invoked # <<>>
        /\ \A i \in 1..Len(invoked) : invoked[i].conn = a
        /\ wsState[b] = "OPEN" /\ pc[b] \in {"connect1", "connect2"}
        /\ sent[b] # <<>>
        /\ sent[b][Len(sent[b])] = TripsEnv(collectedTrips)
        /\ sent[a][Len(sent[a])] = TripsEnv(collectedTrips)

\* C6: a connection whose upstream connect failed has its socket closed
ConnectFailureClosesSocket ==
    \A c \in Conns : pc[c] \in {"failed", "rejected"} => wsState[c] = "CLOSED"

\* the functionResponses of the tool responses a session received, in order
RECURSIVE Responses(_)
Responses(items) ==
    IF items = <<>> THEN <<>>
    ELSE (IF Head(items).kind = "toolResponse" THEN Head(items).responses ELSE <<>>)
         \o Responses(Tail(items))

\* C7: the acknowledgments the session of a connection has received are, in
\* order, one success acknowledgment per saveTrip invocation that session
\* issued, each with its invocation's id; the session of the first connect,
\* which issues none, receives none
OneAckPerSaveTrip ==
    \A c \in Conns :
        LET mine == SelectSeq(invoked, LAMBDA v : v.conn = c)
        IN /\ Responses(upRecv[c][SecondConnect])
                = [i \in 1..Len(mine) |->
                     [name |-> "saveTrip", id |-> mine[i].id,
                      result |-> "Trip saved successfully."]]
           /\ Responses(upRecv[c][FirstConnect]) = <<>>

\* a message with two saveTrip invocations has been acknowledged, ids in order
OneAckPerSaveTripWitness ==
    \E c \in Conns :
        LET r == upRecv[c][SecondConnect]
        IN /\ r # <<>>
           /\ r[Len(r)].kind = "toolResponse"
           /\ Len(r[Len(r)].responses) = 2
           /\ r[Len(r)].responses[1].id = 2
           /\ r[Len(r)].responses[2].id = 1

\* the payloads of the realtime chunks a session received, in order
RECURSIVE ChunkData(_)
ChunkData(items) ==
    IF items = <<>> THEN <<>>
    ELSE (IF Head(items).kind = "realtimeInput" /\ Head(items).mimeType = "audio/pcm;rate=16000"
          THEN <<Head(items).data>> ELSE <<>>)
         \o ChunkData(Tail(items))

\* C8: every audio frame a browser sends on its open socket, with a payload
\* the upstream accepts, is handed once to the connection's session as the
\* next realtime chunk, so the session receives the frames in sending order
AudioForwardedInOrder ==
    [][\A c \in Conns, f \in ClientFrames :
        (ClientMessage(c, f) /\ f.json /\ f.type = "audio" /\ ~SendRejects(f.data)) =>
            /\ ChunkData(Added(upRecv[c][SecondConnect], upRecv'[c][SecondConnect]))
                 = <<f.data>>
            /\ Added(upRecv[c][FirstConnect], upRecv'[c][FirstConnect]) = <<>>]_vars

\* C9: at most one started chunk is waiting for its completion callback, and
\* an audio envelope arriving while a chunk plays only lengthens the queue
SinglePlayback ==
    /\ [](Cardinality(playing \cup stale) <= 1)
    /\ [][(received' # received /\ playing # {}) =>
            /\ audioQueue' = Append(audioQueue, received'[Len(received')])
            /\ started' = started
            /\ playing' = playing]_vars

\* a chunk is playing and one that arrived meanwhile waits in the queue
SinglePlaybackWitness ==
    /\ playing # {}
    /\ audioQueue # <<>>
    /\ Len(received) = Len(started) + Len(audioQueue)

CaptureSendsIffOpen ==
    [][AudioProcess =>
        /\ (nFramesSent' = nFramesSent + 1) <=> (sock[ws] = "OPEN")
        /\ (nFramesSent' = nFramesSent) <=> (sock[ws] # "OPEN")
        /\ sock' = sock]_vars

\* a capture callback fired while recording was on and the page's socket was
\* still connecting, and the frame was not sent
CaptureSendsIffOpenWitness ==
    /\ nCaptured = 1
    /\ nFramesSent = 0
    /\ isRecording
    /\ sock[ws] = "CONNECTING"

\* a frame JSON.parse throws on, or an audio frame whose send rejects
Malformed(f) == ~f.json \/ (f.type = "audio" /\ SendRejects(f.data))

\* C12: when the message listener of a connection handles a malformed frame,
\* the process goes on, the socket and the upstream session stay open, the
\* store is unchanged and the session takes no chunk; and a valid audio frame
\* the listener handles, before or after a malformed one, reaches the session
MalformedIsCaught ==
    [][\A c \in Conns, f \in ClientFrames :
        (HandlersRegistered(c) /\ ClientMessage(c, f)) =>
            LET chunks == ChunkData(Added(upRecv[c][SecondConnect],
                                          upRecv'[c][SecondConnect]))
            IN /\ alive'
               /\ wsState'[c] = "OPEN"
               /\ up'[c][SecondConnect] = "open"
               /\ up' = up
               /\ HandlersRegistered(c)'
               /\ collectedTrips' = collectedTrips
               /\ sent' = sent
               /\ IF Malformed(f) THEN chunks = <<>>
                  ELSE f.type = "audio" => chunks = <<f.data>>]_vars

\* a session whose send rejected a payload took the next frame's chunk, with
\* the socket and the session open and the store untouched
MalformedIsCaughtWitness ==
    \E c \in Conns :
        /\ upRecv[c][SecondConnect] = <<Rejected(9), RealtimeInput(1)>>
        /\ wsState[c] = "OPEN"
        /\ up[c][SecondConnect] = "open"
        /\ collectedTrips = <<>>

\* the page has connected and none of its sockets is connecting, open or closing
Disconnected == ws # 0 /\ \A s \in Sockets : sock[s] \in {"NONE", "CLOSED"}

\* C13: a disconnected page with no getUserMedia call and no completion
\* callback pending holds no live microphone stream, no script processor and
\* no open audio context
ReleasedAfterDisconnect ==
    (Disconnected /\ micPending = 0 /\ playing \cup stale = {}) =>
        (liveStreams = 0 /\ processors = 0 /\ ~audioContext)

\* C14: a message's tool calls change the store, the broadcasts and the
\* acknowledgments sent upstream exactly as its saveTrip calls alone would:
\* a call of another name adds no record, no trips_update and no entry in
\* the functionResponses, so a message with no saveTrip call leaves the store
\* and every socket alone and is answered with an empty list
UnknownToolIgnored ==
    [][\A c \in Conns, msg \in UpstreamMsgs :
        (msg.toolCall /\ msg.hasCalls /\ UpstreamMessage(c, msg)) =>
            LET saves == SelectSeq(msg.functionCalls, LAMBDA call : call.name = "saveTrip")
                n == Len(saves)
            IN /\ collectedTrips' = collectedTrips \o [i \in 1..n |-> saves[i].args]
               /\ \A k \in Conns :
                     Len(SelectSeq(Added(sent[k], sent'[k]),
                                   LAMBDA e : e.type = "trips_update"))
                        = IF wsState[k] = "OPEN" THEN n ELSE 0
               /\ Added(upRecv[c][SecondConnect], upRecv'[c][SecondConnect])
                     = <<ToolResponse([i \in 1..n |-> FunctionResponse(saves[i].id)])>>]_vars

\* a session whose only tool call named another tool has been answered with
\* an empty list; nothing is stored and its client got only the status line
\* and the initial snapshot
UnknownToolIgnoredWitness ==
    \E c \in Conns :
        /\ upRecv[c][SecondConnect] = <<ToolResponse(<<>>)>>
        /\ collectedTrips = <<>>
        /\ sent[c] = <<StatusEnv, TripsEnv(<<>>)>>

\* C15: at most one of the page's sockets is connecting or open, and at most
\* one microphone stream is live
OneSocketAtATime ==
    /\ Cardinality({s \in Sockets : sock[s] \in {"CONNECTING", "OPEN"}}) <= 1
    /\ liveStreams <= 1

\* C16: the playing flag is set only while a started chunk's completion
\* callback is still to come, so that a queued chunk always has a callback
\* ahead of it that will start it
PlayingFlagHasChunk ==
    isPlaying => (playing \cup stale) # {}

\* a part with inline PCM audio
CarriesPcm(part) == part.inlineData /\ part.mimeType \in {"audio/pcm", "audio/pcm;rate=24000"}

\* C17: a message's parts reach the open socket of the session's own
\* connection as one envelope per part that carries PCM audio or text, in
\* part order: an audio envelope with the part's data if it carries PCM
\* audio, a log envelope with its text otherwise; a part carrying neither
\* gives none, and no other socket gets an audio or log envelope
PartsForwardedInOrder ==
    [][\A c \in Conns, msg \in UpstreamMsgs :
        (msg.hasParts /\ wsState[c] = "OPEN" /\ UpstreamMessage(c, msg)) =>
            LET out == SelectSeq(Added(sent[c], sent'[c]),
                                 LAMBDA e : e.type \in {"audio", "log"})
                carrying == SelectSeq(msg.parts,
                                      LAMBDA part : CarriesPcm(part) \/ part.text # "")
            IN /\ Len(out) = Len(carrying)
               /\ \A i \in 1..Len(carrying) :
                     IF CarriesPcm(carrying[i])
                     THEN out[i] = [type |-> "audio", message |-> "",
                                    data |-> carrying[i].data, trips |-> <<>>]
                     ELSE out[i] = [type |-> "log",
                                    message |-> "Gemini: " \o carrying[i].text,
                                    data |-> 0, trips |-> <<>>]
               /\ \A k \in Conns \ {c} :
                     SelectSeq(Added(sent[k], sent'[k]),
                               LAMBDA e : e.type \in {"audio", "log"}) = <<>>]_vars

\* a client got the envelopes of a text part, a PCM part that also has text
\* and a PCM part, in that order and with nothing for the image part between
\* them, while another open socket got none of them
PartsForwardedInOrderWitness ==
    \E c \in Conns, k \in Conns :
        /\ k # c
        /\ sent[c] = <<StatusEnv, TripsEnv(<<>>), LogEnv("ciao"), AudioEnv(2), AudioEnv(1)>>
        /\ wsState[k] = "OPEN"
        /\ \A i \in 1..Len(sent[k]) : sent[k][i].type \notin {"audio", "log"}

\* C18: a status or log envelope delivered to the page puts its message at
\* the top of the transcript
StatusAndLogShown ==
    [][\A s \in Sockets, env \in PageEnvs :
        (SocketMessage(s, env) /\ env.type \in {"status", "log"}) =>
            logs' = [first |-> env.message, count |-> logs.count + 1]]_vars

\* the table of a page whose socket has delivered envs to ws.onmessage, in
\* order, starting from the empty table
RECURSIVE Table(_, _)
Table(table, envs) ==
    IF envs = <<>> THEN table
    ELSE Table(onmessageTrips(table, Head(envs)), Tail(envs))

\* the trips_update envelopes among envs, in order
TripsUpdates(envs) == SelectSeq(envs, LAMBDA e : e.type = "trips_update")

\* C19: between handler runs, every open socket whose setup has completed
\* has been sent a trips_update with the whole store and none after it, and
\* a page that has been delivered all that was sent to it shows one row per
\* record of the store, in store order
SameStoreEverywhere ==
    \A c \in Conns :
        (pc[c] = "ready" /\ wsState[c] = "OPEN") =>
            /\ \E i \in 1..Len(sent[c]) :
                  /\ sent[c][i] = TripsEnv(collectedTrips)
                  /\ \A j \in (i + 1)..Len(sent[c]) : sent[c][j].type # "trips_update"
            /\ Table(<<>>, sent[c]) = updateTrips(collectedTrips)

\* one client completed its setup before the records were stored and was
\* sent them by broadcast, another connected afterwards and was sent them
\* as its snapshot
SameStoreEverywhereWitness ==
    \E a, b \in Conns :
        /\ a # b
        /\ collectedTrips # <<>>
        /\ pc[a] = "ready" /\ wsState[a] = "OPEN"
        /\ pc[b] = "ready" /\ wsState[b] = "OPEN"
        /\ SubSeq(sent[a], 1, 2) = <<StatusEnv, TripsEnv(<<>>)>>
        /\ Len(sent[a]) > 2
        /\ sent[b] = <<StatusEnv, TripsEnv(collectedTrips)>>

\* a is an initial segment of b
StartsWith(b, a) == Len(a) <= Len(b) /\ SubSeq(b, 1, Len(a)) = a

\* C20: every trips_update payload sent to a socket is a prefix of the store
\* and at least as long as every payload sent to that socket before it, so
\* that each payload extends or equals the ones before it; the table
\* ws.onmessage renders from a payload has one row per record of it, so under
\* in-order delivery the table never loses a row and never has a row for a
\* record that is not in the store
ViewNeverGoesBack ==
    \A c \in Conns :
        \A j \in 1..Len(sent[c]) :
            LET later == sent[c][j]
            IN later.type = "trips_update" =>
                 /\ StartsWith(collectedTrips, later.trips)
                 /\ Len(onmessageTrips(<<>>, later)) = Len(later.trips)
                 /\ \A i \in 1..(j - 1) :
                       sent[c][i].type = "trips_update" =>
                           Len(sent[c][i].trips) <= Len(later.trips)

\* a client was sent the empty snapshot and then growing stores, the records
\* coming from another connection's session
ViewNeverGoesBackWitness ==
    \E c \in Conns :
        LET tu == TripsUpdates(sent[c])
        IN /\ Len(tu) >= 3
           /\ tu[1].trips = <<>>
           /\ Len(tu[Len(tu)].trips) > Len(tu[2].trips)
           /\ invoked # <<>>
           /\ \A i \in 1..Len(invoked) : invoked[i].conn # c
====
